---------------------------- MODULE Spec2Model ----------------------------
(* Model of boss_poster.py: one scheduled run of the boss scraper.          *)
(* The run reads DISCORD_WEBHOOK_URL, scrapes the boss tracker page         *)
(* (scrape_top_bosses), and posts either a report embed or an error text    *)
(* through the webhook (send_discord_message).                              *)
(*                                                                          *)
(* Python values are records carrying their type; text that the code        *)
(* inspects character by character (element text of <a> and <strong>) is a  *)
(* sequence of one-character strings; messages the code only builds are     *)
(* TLA+ strings.                                                            *)
EXTENDS Integers, Sequences, FiniteSets, TLC

VARIABLES
    env,            \* value of os.environ.get('DISCORD_WEBHOOK_URL')
    webhook_url,    \* main's local webhook_url
    pc,             \* position of the run
    exit_status,    \* -1 while running, else the process exit code
    response,       \* result of session.get
    boss_articles,  \* soup.find_all('article')
    bosses_data,    \* list of (name, chance) tuples
    encountered,    \* history: bosses_data as appended, before the sort
    top_5_bosses,   \* bosses_data[:5]
    embed,          \* first value returned by scrape_top_bosses
    error,          \* second value returned by scrape_top_bosses
    webhook,        \* the DiscordWebhook object of send_discord_message
    get_count,      \* history: number of HTTP GETs performed
    execute_count,  \* history: number of webhook.execute() calls
    delivery,       \* history: outcome of webhook.execute()
    steps,          \* history: pipeline steps that ran, in order
    failure         \* history: which return/except path ended the scrape

vars == <<env, webhook_url, pc, exit_status, response, boss_articles,
          bosses_data, encountered, top_5_bosses, embed, error, webhook,
          get_count, execute_count, delivery, steps, failure>>

-----------------------------------------------------------------------------
(* Bounds of the model *)

\* longest document (number of <article> elements) with arbitrary articles
MaxArticles == 3

\* longest document of well-formed articles given to the ranking specification
MaxRankArticles == 6

-----------------------------------------------------------------------------
(* Python values *)

NoneT == [type |-> "NoneType"]

Str(s) == [type |-> "str", s |-> s]

\* a bs4 Tag with its .text
Tag(text) == [type |-> "Tag", text |-> text]

\* Python truth value: None and "" are false; a bs4 Tag and a DiscordEmbed
\* are true whatever they contain.
Truthy(v) ==
    CASE v.type = "NoneType" -> FALSE
      [] v.type = "str"      -> v.s # ""
      [] OTHER               -> TRUE

\* bosses_data[:5]
TopN == 5

BOSS_TRACKER_URL == "https://www.exevopan.com/bosses/celesta"

-----------------------------------------------------------------------------
(* Text functions used on element text *)

Whitespace == {" "}

Digits == {"0", "1", "2", "3", "4", "5", "6", "7", "8", "9"}

DigitVal(c) ==
    CASE c = "0" -> 0 [] c = "1" -> 1 [] c = "2" -> 2 [] c = "3" -> 3
      [] c = "4" -> 4 [] c = "5" -> 5 [] c = "6" -> 6 [] c = "7" -> 7
      [] c = "8" -> 8 [] c = "9" -> 9

RECURSIVE lstrip(_)
lstrip(t) ==
    IF t # <<>> /\ Head(t) \in Whitespace THEN lstrip(Tail(t)) ELSE t

RECURSIVE rstrip(_)
rstrip(t) ==
    IF t # <<>> /\ t[Len(t)] \in Whitespace
    THEN rstrip(SubSeq(t, 1, Len(t) - 1))
    ELSE t

\* str.strip()
strip(t) == rstrip(lstrip(t))

\* str.endswith('%')
endswith_percent(t) == t # <<>> /\ t[Len(t)] = "%"

\* str.replace('%', ''): every '%' is removed
replace_percent(t) == SelectSeq(t, LAMBDA c : c # "%")

RECURSIVE DigitsValue(_)
DigitsValue(ds) ==
    IF ds = <<>> THEN 0
    ELSE 10 * DigitsValue(SubSeq(ds, 1, Len(ds) - 1)) + DigitVal(ds[Len(ds)])

IsDigits(t) == \A i \in 1..Len(t) : t[i] \in Digits

\* position of the first '.' in t, 0 if none
RECURSIVE DotAt(_, _)
DotAt(t, i) ==
    IF i > Len(t) THEN 0 ELSE IF t[i] = "." THEN i ELSE DotAt(t, i + 1)

IsNegative(s) == s # <<>> /\ Head(s) = "-"

Unsigned(s) == IF s # <<>> /\ Head(s) \in {"+", "-"} THEN Tail(s) ELSE s

IntDigits(body, dot) == IF dot = 0 THEN body ELSE SubSeq(body, 1, dot - 1)

FracDigits(body, dot) ==
    IF dot = 0 THEN <<>> ELSE SubSeq(body, dot + 1, Len(body))

\* a decimal needs at least one digit, before or after the point
FloatDecimal(neg, ip, fp) ==
    IF IsDigits(ip) /\ IsDigits(fp) /\ Len(ip) + Len(fp) > 0
    THEN [kind |-> "finite", neg |-> neg, int_part |-> DigitsValue(ip),
          frac |-> fp]
    ELSE [kind |-> "ValueError"]

FloatUnsigned(neg, body) ==
    IF body \in {<<"i", "n", "f">>, <<"i", "n", "f", "i", "n", "i", "t", "y">>}
    THEN [kind |-> "inf", neg |-> neg]
    ELSE IF body = <<"n", "a", "n">>
    THEN [kind |-> "nan"]
    ELSE FloatDecimal(neg, IntDigits(body, DotAt(body, 1)),
                      FracDigits(body, DotAt(body, 1)))

FloatStripped(s) == FloatUnsigned(IsNegative(s), Unsigned(s))

\* float(text), for text over the alphabet of the model (sign, digits, '.',
\* the words inf and nan): surrounding whitespace is ignored, an optional
\* sign, then inf, nan or a decimal; anything else raises ValueError.
float(t) == FloatStripped(strip(t))

\* int(f) of a float: truncation toward zero; int(nan) raises ValueError,
\* int(inf) raises OverflowError. A ValueError of float() passes through.
int_of(f) ==
    CASE f.kind = "finite" ->
           [kind |-> "ok",
            value |-> IF f.neg THEN 0 - f.int_part ELSE f.int_part]
      [] f.kind = "nan" -> [kind |-> "ValueError"]
      [] f.kind = "inf" ->
           [kind |-> "OverflowError",
            msg |-> "cannot convert float infinity to integer"]
      [] OTHER -> [kind |-> "ValueError"]

-----------------------------------------------------------------------------
(* The record loop of scrape_top_bosses *)

\* lines 65-71: append the tuple, skip on ValueError, let any other
\* exception leave the loop
AppendOrSkip(boss_name, c) ==
    CASE c.kind = "ok" -> [kind |-> "append", rec |-> <<boss_name, c.value>>]
      [] c.kind = "ValueError" -> [kind |-> "skip"]
      [] OTHER -> [kind |-> "raise", msg |-> c.msg]

\* lines 64-71
ParseRecord(boss_name, chance_text) ==
    IF endswith_percent(chance_text)
    THEN AppendOrSkip(boss_name, int_of(float(replace_percent(chance_text))))
    ELSE [kind |-> "skip"]

\* One iteration of `for item in boss_articles`: the tuple to append, a
\* skip, or an exception that leaves the loop.
ProcessArticle(item) ==
    IF Truthy(item.a) /\ Truthy(item.strong)
    THEN ParseRecord(strip(item.a.text), strip(item.strong.text))
    ELSE [kind |-> "skip"]

RECURSIVE ExtractLoop(_, _, _)

ExtractStep(articles, i, acc, r) ==
    CASE r.kind = "append" -> ExtractLoop(articles, i + 1, Append(acc, r.rec))
      [] r.kind = "skip" -> ExtractLoop(articles, i + 1, acc)
      [] OTHER -> [raised |-> TRUE, msg |-> r.msg, data |-> acc]

\* the for loop from article i on, acc being bosses_data so far
ExtractLoop(articles, i, acc) ==
    IF i > Len(articles)
    THEN [raised |-> FALSE, data |-> acc]
    ELSE ExtractStep(articles, i, acc, ProcessArticle(articles[i]))

-----------------------------------------------------------------------------
(* bosses_data.sort(key=lambda x: x[1], reverse=True) and bosses_data[:5] *)

\* the sort key: x[1] of the Python tuple
Chance(x) == x[2]

\* InsertPos with > for >=: x goes before the records of equal chance
RECURSIVE InsertPosBeforeTies(_, _, _)
InsertPosBeforeTies(s, x, i) ==
    IF i <= Len(s) /\ Chance(s[i]) > Chance(x)
    THEN InsertPosBeforeTies(s, x, i + 1)
    ELSE i

\* position at which a stable descending sort puts x into the sorted list s:
\* after every element whose key is >= the key of x
RECURSIVE InsertPos(_, _, _)
InsertPos(s, x, i) ==
    IF i <= Len(s) /\ Chance(s[i]) >= Chance(x)
    THEN InsertPos(s, x, i + 1)
    ELSE i

InsertAt(s, x, p) == SubSeq(s, 1, p - 1) \o <<x>> \o SubSeq(s, p, Len(s))

InsertByChance(s, x) == InsertAt(s, x, InsertPos(s, x, 1))

RECURSIVE SortByChanceDesc(_)
SortByChanceDesc(data) ==
    IF data = <<>> THEN <<>>
    ELSE InsertByChance(SortByChanceDesc(SubSeq(data, 1, Len(data) - 1)),
                        data[Len(data)])

Min(a, b) == IF a <= b THEN a ELSE b

\* data[:n]
Slice(data, n) == SubSeq(data, 1, Min(n, Len(data)))

-----------------------------------------------------------------------------
(* What scrape_top_bosses returns *)

ParseFailureMessage ==
    "Error: Found boss articles but couldn't parse name/chance. Bot needs updating."

\* the zero-articles return reusing the message of the empty-list return
AnchorMessageReused == ParseFailureMessage

AnchorNotFoundMessage ==
    "Error: Could not find boss data on Exevo Pan. The website's HTML structure may have changed."

EmptyTopMessage == "Error: Parsed bosses but top 5 list is empty."

\* except requests.exceptions.HTTPError as http_err
HTTPErrorMessage(http_err) ==
    "An error occurred while processing boss data: " \o http_err
        \o ". The site may be blocking the bot."

\* except Exception as e
UnexpectedMessage(e) == "An unexpected error occurred: " \o e \o "."

Emoji(i) ==
    IF i = 1 THEN "gold" ELSE IF i = 2 THEN "silver"
    ELSE IF i = 3 THEN "bronze" ELSE "bullet"

\* the lines of description_text, one per listed boss
DescriptionText(top) ==
    [i \in 1..Len(top) |->
        [emoji |-> Emoji(i), name |-> top[i][1], chance |-> top[i][2]]]

\* the DiscordEmbed built from the top list (its timestamp is left out)
BuildEmbed(top) ==
    [type        |-> "DiscordEmbed",
     title       |-> "Daily Boss Hunter Report (Celesta)",
     color       |-> "00e676",
     url         |-> BOSS_TRACKER_URL,
     description |-> "Here are the top 5 bosses with the highest spawn chance today:",
     field_name  |-> "Top 5 Chances",
     field_value |-> DescriptionText(top),
     footer      |-> "Data from ExevoPan.com"]

\* response.raise_for_status(): the HTTPError text for a 4xx/5xx status,
\* None otherwise
raise_for_status(r) ==
    IF 400 <= r.status /\ r.status < 500
    THEN Str(r.reason \o " Client Error for url: " \o BOSS_TRACKER_URL)
    ELSE IF 500 <= r.status /\ r.status < 600
    THEN Str(r.reason \o " Server Error for url: " \o BOSS_TRACKER_URL)
    ELSE NoneT

-----------------------------------------------------------------------------
(* What send_discord_message builds *)

\* the DiscordWebhook after lines 119-126
PrepareWebhook(url, embed_arg, error_message) ==
    [type    |-> "DiscordWebhook",
     url     |-> url,
     content |-> IF Truthy(error_message)
                 THEN Str("Bot Error: " \o error_message.s)
                 ELSE NoneT,
     embeds  |-> IF ~Truthy(error_message) /\ Truthy(embed_arg)
                 THEN <<embed_arg>>
                 ELSE <<>>]

-----------------------------------------------------------------------------
(* Inputs of a run *)

\* DISCORD_WEBHOOK_URL: unset, set to the empty string, or set
WebhookEnv == {NoneT, Str(""), Str("https://discord.com/api/webhooks/1/t")}

T_Mor == <<"M", "o", "r">>
T_Zul == <<" ", "Z", "u", "l", " ">>
T_Fer == <<"F", "e", "r">>
T_Gha == <<"G", "h", "a">>
T_Ork == <<"O", "r", "k">>

\* <article> elements: the first <a> and the first <strong> inside, if any
ArticleKinds ==
    { [a |-> Tag(T_Mor), strong |-> Tag(<<"4", "5", "%">>)],
      [a |-> Tag(T_Zul), strong |-> Tag(<<"4", "5", ".", "9", "%">>)],
      [a |-> Tag(T_Fer), strong |-> Tag(<<" ", "1", "2", "%", " ">>)],
      [a |-> Tag(T_Gha), strong |-> Tag(<<"0", "%">>)],
      [a |-> Tag(T_Ork), strong |-> Tag(<<"0", ".", "7", "%">>)],
      [a |-> Tag(T_Ork), strong |-> Tag(<<"-", "3", "%">>)],
      [a |-> Tag(<<" ">>), strong |-> Tag(<<"5", "%">>)],
      [a |-> NoneT,      strong |-> Tag(<<"4", "5", "%">>)],
      [a |-> Tag(T_Gha), strong |-> NoneT],
      [a |-> Tag(T_Gha), strong |-> Tag(<<"4", "5">>)],
      [a |-> Tag(T_Gha), strong |-> Tag(<<"s", "o", "o", "n", "%">>)],
      [a |-> Tag(T_Gha), strong |-> Tag(<<"n", "a", "n", "%">>)],
      [a |-> Tag(T_Gha), strong |-> Tag(<<"i", "n", "f", "%">>)] }

\* well-formed articles, for the ranking specification
RankArticleKinds ==
    { [a |-> Tag(T_Mor), strong |-> Tag(<<"4", "5", "%">>)],
      [a |-> Tag(T_Zul), strong |-> Tag(<<"4", "5", ".", "9", "%">>)],
      [a |-> Tag(T_Fer), strong |-> Tag(<<" ", "1", "2", "%", " ">>)],
      [a |-> Tag(T_Gha), strong |-> Tag(<<"0", "%">>)],
      [a |-> Tag(T_Ork), strong |-> NoneT] }

SeqsUpTo(S, lo, hi) == UNION { [1..k -> S] : k \in lo..hi }

Article(name, chance_text) == [a |-> Tag(name), strong |-> Tag(chance_text)]

\* documents longer than MaxArticles: the ranking scenario with four
\* records, and a page of eight records with positive chances
ScenarioDocs ==
    { << Article(T_Fer, <<"1", "2", "%">>), Article(T_Mor, <<"4", "5", "%">>),
         Article(T_Zul, <<"4", "5", "%">>), Article(T_Gha, <<"0", "%">>) >>,
      << Article(T_Fer, <<"1", "2", "%">>), Article(T_Mor, <<"4", "5", "%">>),
         Article(T_Zul, <<"4", "5", "%">>), Article(T_Gha, <<"7", "%">>),
         Article(T_Ork, <<"1", "2", "%">>), Article(T_Ork, <<"4", "5", "%">>),
         Article(T_Mor, <<"3", "%">>),      Article(T_Zul, <<"1", "2", "%">>) >> }

Docs == SeqsUpTo(ArticleKinds, 0, MaxArticles) \cup ScenarioDocs

RankDocs == SeqsUpTo(RankArticleKinds, 1, MaxRankArticles)

\* what session.get does: it raises (connection refused, read timeout), or
\* it returns a response
FetchOutcomes ==
    { [kind |-> "raise", msg |-> m] :
        m \in {"Connection refused", "Read timed out"} }
    \cup { [kind |-> "response", status |-> 403, reason |-> "403", articles |-> <<>>],
           [kind |-> "response", status |-> 503, reason |-> "503", articles |-> <<>>] }
    \cup { [kind |-> "response", status |-> 200, reason |-> "200", articles |-> d] :
             d \in Docs }

\* what webhook.execute() does: a 2xx response, another response, or raises
ExecuteOutcomes == {"ok", "rejected", "exception"}

-----------------------------------------------------------------------------
(* The run *)

NoResponse == [kind |-> "none"]

Init ==
    /\ env \in WebhookEnv
    /\ webhook_url = NoneT
    /\ pc = "start"
    /\ exit_status = -1
    /\ response = NoResponse
    /\ boss_articles = <<>>
    /\ bosses_data = <<>>
    /\ encountered = <<>>
    /\ top_5_bosses = <<>>
    /\ embed = NoneT
    /\ error = NoneT
    /\ webhook = NoneT
    /\ get_count = 0
    /\ execute_count = 0
    /\ delivery = "none"
    /\ steps = <<>>
    /\ failure = "pending"

\* `return None, message` and the two except clauses: scrape_top_bosses
\* ends and main receives (embed, error)
Return(e, msg, why) ==
    /\ embed' = e
    /\ error' = msg
    /\ failure' = why
    /\ pc' = "returned"

\* Main_Start without the check of lines 142-144
Main_Start_Unchecked ==
    /\ pc = "start"
    /\ webhook_url' = env
    /\ pc' = "fetch"
    /\ UNCHANGED <<env, exit_status, response, boss_articles, bosses_data,
                   encountered, top_5_bosses, embed, error, webhook,
                   get_count, execute_count, delivery, steps, failure>>

\* main, lines 140-144
Main_Start ==
    /\ pc = "start"
    /\ webhook_url' = env
    /\ IF ~Truthy(env)
       THEN /\ pc' = "exited"
            /\ exit_status' = 1
       ELSE /\ pc' = "fetch"
            /\ UNCHANGED exit_status
    /\ UNCHANGED <<env, response, boss_articles, bosses_data, encountered,
                   top_5_bosses, embed, error, webhook, get_count,
                   execute_count, delivery, steps, failure>>

\* AfterStatus without raise_for_status: an error response goes on
AfterStatusIgnored(http_err) ==
    /\ pc' = "locate"
    /\ UNCHANGED <<embed, error, failure>>

\* line 36 and the except clause of lines 102-105
AfterStatus(http_err) ==
    IF Truthy(http_err)
    THEN Return(NoneT, Str(HTTPErrorMessage(http_err.s)), "http_error")
    ELSE /\ pc' = "locate"
         /\ UNCHANGED <<embed, error, failure>>

\* scrape_top_bosses, lines 32-36
Scrape_Fetch ==
    /\ pc = "fetch"
    /\ \E o \in FetchOutcomes :
        /\ get_count' = get_count + 1
        /\ steps' = Append(steps, "fetch")
        /\ IF o.kind = "raise"
           THEN /\ Return(NoneT, Str(UnexpectedMessage(o.msg)), "exception")
                /\ UNCHANGED response
           ELSE /\ response' = o
                /\ AfterStatus(raise_for_status(o))
    /\ UNCHANGED <<env, webhook_url, exit_status, boss_articles, bosses_data,
                   encountered, top_5_bosses, webhook, execute_count, delivery>>

\* scrape_top_bosses, lines 38-51
Scrape_Locate ==
    /\ pc = "locate"
    /\ boss_articles' = response.articles
    /\ steps' = Append(steps, "locate")
    /\ IF response.articles = <<>>
       THEN Return(NoneT, Str(AnchorNotFoundMessage), "anchor")
       ELSE /\ pc' = "extract"
            /\ UNCHANGED <<embed, error, failure>>
    /\ UNCHANGED <<env, webhook_url, exit_status, response, bosses_data,
                   encountered, top_5_bosses, webhook, get_count,
                   execute_count, delivery>>

\* after the for loop: the except clause if it raised, else lines 73-75
AfterLoop(r) ==
    /\ bosses_data' = r.data
    /\ encountered' = r.data
    /\ IF r.raised
       THEN Return(NoneT, Str(UnexpectedMessage(r.msg)), "exception")
       ELSE IF r.data = <<>>
       THEN Return(NoneT, Str(ParseFailureMessage), "unparsable")
       ELSE /\ pc' = "rank"
            /\ UNCHANGED <<embed, error, failure>>

\* scrape_top_bosses, lines 53-75
Scrape_Extract ==
    /\ pc = "extract"
    /\ steps' = Append(steps, "extract")
    /\ AfterLoop(ExtractLoop(boss_articles, 1, <<>>))
    /\ UNCHANGED <<env, webhook_url, exit_status, response, boss_articles,
                   top_5_bosses, webhook, get_count, execute_count, delivery>>

\* scrape_top_bosses, lines 77-83
Scrape_Rank ==
    /\ pc = "rank"
    /\ steps' = steps \o <<"sort", "truncate">>
    /\ bosses_data' = SortByChanceDesc(bosses_data)
    /\ top_5_bosses' = Slice(bosses_data', TopN)
    /\ IF top_5_bosses' = <<>>
       THEN Return(NoneT, Str(EmptyTopMessage), "empty_top")
       ELSE /\ pc' = "embed"
            /\ UNCHANGED <<embed, error, failure>>
    /\ UNCHANGED <<env, webhook_url, exit_status, response, boss_articles,
                   encountered, webhook, get_count, execute_count, delivery>>

\* scrape_top_bosses, lines 85-100
Scrape_Embed ==
    /\ pc = "embed"
    /\ steps' = Append(steps, "embed")
    /\ Return(BuildEmbed(top_5_bosses), NoneT, "none")
    /\ UNCHANGED <<env, webhook_url, exit_status, response, boss_articles,
                   bosses_data, encountered, top_5_bosses, webhook, get_count,
                   execute_count, delivery>>

\* main, lines 148-151, and send_discord_message, lines 115-126
Send_Prepare ==
    /\ pc = "returned"
    /\ IF ~Truthy(webhook_url)
       THEN /\ pc' = "exited"
            /\ exit_status' = 1
            /\ UNCHANGED webhook
       ELSE /\ webhook' = IF Truthy(error)
                          THEN PrepareWebhook(webhook_url, NoneT, error)
                          ELSE PrepareWebhook(webhook_url, embed, NoneT)
            /\ pc' = "execute"
            /\ UNCHANGED exit_status
    /\ UNCHANGED <<env, webhook_url, response, boss_articles, bosses_data,
                   encountered, top_5_bosses, embed, error, get_count,
                   execute_count, delivery, steps, failure>>

\* Send_Execute executing again after a delivery that did not succeed
Send_Execute_Retry ==
    /\ pc = "execute"
    /\ \E o \in ExecuteOutcomes :
        /\ execute_count' = IF o = "ok" THEN execute_count + 1
                            ELSE execute_count + 2
        /\ delivery' = o
    /\ pc' = "exited"
    /\ exit_status' = 0
    /\ UNCHANGED <<env, webhook_url, response, boss_articles, bosses_data,
                   encountered, top_5_bosses, embed, error, webhook,
                   get_count, steps, failure>>

\* Send_Execute without the try/except around webhook.execute()
Send_Execute_Uncaught ==
    /\ pc = "execute"
    /\ \E o \in ExecuteOutcomes :
        /\ execute_count' = execute_count + 1
        /\ delivery' = o
        /\ exit_status' = IF o = "exception" THEN 1 ELSE 0
    /\ pc' = "exited"
    /\ UNCHANGED <<env, webhook_url, response, boss_articles, bosses_data,
                   encountered, top_5_bosses, embed, error, webhook,
                   get_count, steps, failure>>

\* send_discord_message, lines 128-135, and the end of the script
Send_Execute ==
    /\ pc = "execute"
    /\ \E o \in ExecuteOutcomes :
        /\ execute_count' = execute_count + 1
        /\ delivery' = o
    /\ pc' = "exited"
    /\ exit_status' = 0
    /\ UNCHANGED <<env, webhook_url, response, boss_articles, bosses_data,
                   encountered, top_5_bosses, embed, error, webhook,
                   get_count, steps, failure>>

Next ==
    \/ Main_Start
    \/ Scrape_Fetch
    \/ Scrape_Locate
    \/ Scrape_Extract
    \/ Scrape_Rank
    \/ Scrape_Embed
    \/ Send_Prepare
    \/ Send_Execute

Spec == Init /\ [][Next]_vars

-----------------------------------------------------------------------------
(* The ranking specification: the record loop, the sort and the slice       *)
(* applied to every document of up to MaxRankArticles well-formed articles. *)
(* Its initial states are the states of a run that has fetched and located  *)
(* such a document.                                                         *)

InitRank ==
    /\ env = Str("https://discord.com/api/webhooks/1/t")
    /\ webhook_url = env
    /\ pc = "extract"
    /\ exit_status = -1
    /\ \E d \in RankDocs :
        /\ response = [kind |-> "response", status |-> 200, reason |-> "200",
                       articles |-> d]
        /\ boss_articles = d
    /\ bosses_data = <<>>
    /\ encountered = <<>>
    /\ top_5_bosses = <<>>
    /\ embed = NoneT
    /\ error = NoneT
    /\ webhook = NoneT
    /\ get_count = 1
    /\ execute_count = 0
    /\ delivery = "none"
    /\ steps = <<"fetch", "locate">>
    /\ failure = "pending"

NextRank ==
    \/ Scrape_Extract
    \/ Scrape_Rank

SpecRank == InitRank /\ [][NextRank]_vars

-----------------------------------------------------------------------------
TypeOK ==
    /\ pc \in {"start", "fetch", "locate", "extract", "rank", "embed",
               "returned", "execute", "exited"}
    /\ exit_status \in {-1, 0, 1}
    /\ failure \in {"pending", "none", "http_error", "exception", "anchor",
                    "unparsable", "empty_top"}
    /\ delivery \in {"none"} \cup ExecuteOutcomes
    /\ get_count \in 0..1
    /\ execute_count \in 0..1

-----------------------------------------------------------------------------
(* Vocabulary of the properties *)

\* DISCORD_WEBHOOK_URL is absent or empty
SecretMissing == env = NoneT \/ env = Str("")

\* scrape_top_bosses has returned
Returned == pc \in {"returned", "execute", "exited"} /\ failure # "pending"

\* the GET returned a response that raise_for_status accepts
Fetched == response # NoResponse /\ response.status < 400

\* the scrape ended in one of its failure returns or except clauses
Failed == failure \notin {"pending", "none"}

\* the text a failed run posts
BotError(msg) == Str("Bot Error: " \o msg.s)

\* the top list is in descending order of chance
Descending(list) ==
    \A i, j \in 1..Len(list) : i < j => Chance(list[i]) >= Chance(list[j])

\* the records of a list that have chance c, in the order of the list
WithChance(list, c) == SelectSeq(list, LAMBDA x : Chance(x) = c)

IsPrefix(p, q) == Len(p) <= Len(q) /\ p = SubSeq(q, 1, Len(p))

ChancesOf(list) == { Chance(list[i]) : i \in 1..Len(list) }

\* a qualifying record: non-empty name and positive chance
Qualifying(x) == x[1] # <<>> /\ Chance(x) > 0

-----------------------------------------------------------------------------
(* C1: a run that starts with the webhook secret present executes the       *)
(* webhook exactly once before it ends, whatever scrape_top_bosses          *)
(* returned: never twice at any point, and once when the process has ended. *)
Thm_C1 ==
    /\ execute_count <= 1
    /\ (pc = "exited" /\ ~SecretMissing) => execute_count = 1
    /\ execute_count = 1 => Returned

\* a failed scrape whose single notification has been sent
Witness_C1 ==
    /\ pc = "exited"
    /\ ~SecretMissing
    /\ Failed
    /\ execute_count = 1

(* C2: with the webhook secret absent or empty the process exits with       *)
(* status 1 in its first step: no HTTP GET happens, no webhook is built or  *)
(* executed.                                                                *)
Thm_C2 ==
    SecretMissing =>
        /\ get_count = 0
        /\ execute_count = 0
        /\ webhook = NoneT
        /\ steps = <<>>
        /\ pc \in {"start", "exited"}
        /\ pc = "exited" => exit_status = 1

\* the empty secret has ended the run
Witness_C2 == env = Str("") /\ pc = "exited" /\ exit_status = 1

(* C5: the ranked output is in descending order of chance and stable on     *)
(* ties: after the sort, the records of each chance are in the order in     *)
(* which the loop met them, and the top list is the head of that order.     *)
Thm_C5 ==
    (pc = "embed") =>
        /\ Descending(bosses_data)
        /\ Descending(top_5_bosses)
        /\ \A c \in ChancesOf(encountered) :
            /\ WithChance(bosses_data, c) = WithChance(encountered, c)
            /\ IsPrefix(WithChance(top_5_bosses, c), WithChance(encountered, c))

\* more than five records, met out of order, with a tie between two
\* different records inside the top list
Witness_C5 ==
    /\ pc = "embed"
    /\ Len(encountered) > TopN
    /\ bosses_data # encountered
    /\ \E i \in 1..(Len(top_5_bosses) - 1) :
        /\ Chance(top_5_bosses[i]) = Chance(top_5_bosses[i + 1])
        /\ top_5_bosses[i] # top_5_bosses[i + 1]

(* C8: a fetched document without any <article> makes the scrape return the *)
(* anchor-not-found message and no embed, and that message is returned in   *)
(* no other case (HTTP error, unparsable records, exception).               *)
Thm_C8 ==
    Returned =>
        /\ (Fetched /\ response.articles = <<>>) =>
              /\ error = Str(AnchorNotFoundMessage)
              /\ embed = NoneT
              /\ failure = "anchor"
        /\ error = Str(AnchorNotFoundMessage) =>
              /\ Fetched
              /\ response.articles = <<>>
              /\ failure = "anchor"

\* the anchor-not-found message has been posted
Witness_C8 ==
    /\ pc = "exited"
    /\ Fetched
    /\ response.articles = <<>>
    /\ webhook # NoneT
    /\ webhook.content = BotError(Str(AnchorNotFoundMessage))

(* C9: the process ends with exit status 1 exactly when the webhook secret  *)
(* is missing; every runtime failure, a failed or rejected delivery         *)
(* included, ends with the notification attempted and exit status 0.        *)
Thm_C9 ==
    (pc = "exited") =>
        /\ exit_status \in {0, 1}
        /\ exit_status = 1 <=> SecretMissing
        /\ ~SecretMissing => execute_count = 1

\* a failed scrape whose delivery raised, ended normally
Witness_C9 ==
    /\ pc = "exited"
    /\ Failed
    /\ delivery = "exception"
    /\ exit_status = 0

(* C10: a failure ends the pipeline at the failing step: a rejected         *)
(* response stops after the fetch, a document without articles after the    *)
(* locate, a loop that raised or kept nothing after the extraction; the     *)
(* scrape then returns no embed and a non-empty message, which is posted    *)
(* as the content with no embed. A successful scrape ran every step and     *)
(* its embed is posted with no content.                                     *)
Thm_C10 ==
    /\ (response # NoResponse /\ response.status >= 400 /\ pc # "fetch") =>
          failure = "http_error"
    /\ (pc \notin {"start", "fetch", "locate"} /\ Fetched
            /\ response.articles = <<>>) =>
          failure = "anchor"
    /\ (pc \notin {"start", "fetch", "locate", "extract"} /\ Fetched
            /\ response.articles # <<>> /\ encountered = <<>>) =>
          failure \in {"unparsable", "exception"}
    /\ Failed =>
          /\ embed = NoneT
          /\ error.type = "str" /\ error.s # ""
          /\ top_5_bosses = <<>>
          /\ pc \in {"returned", "execute", "exited"}
          /\ failure \in {"http_error", "exception"} /\ ~Fetched =>
                steps = <<"fetch">>
          /\ failure = "anchor" => steps = <<"fetch", "locate">>
          /\ failure \in {"unparsable", "exception"} /\ Fetched =>
                steps = <<"fetch", "locate", "extract">>
          /\ failure # "empty_top"
          /\ webhook # NoneT =>
                /\ webhook.content = BotError(error)
                /\ webhook.embeds = <<>>
    /\ failure = "none" =>
          /\ error = NoneT
          /\ embed = BuildEmbed(top_5_bosses)
          /\ top_5_bosses # <<>>
          /\ steps = <<"fetch", "locate", "extract", "sort", "truncate", "embed">>
          /\ webhook # NoneT =>
                /\ webhook.content = NoneT
                /\ webhook.embeds = <<embed>>

\* an HTTP error has been posted as the content, with no embed
Witness_C10 ==
    /\ pc = "exited"
    /\ failure = "http_error"
    /\ webhook.content = BotError(error)
    /\ webhook.embeds = <<>>

-----------------------------------------------------------------------------
(* Statements that the code does not satisfy *)

(* C3: every (name, chance) pair of the top list has chance > 0. *)
Claim_C3 ==
    \A i \in 1..Len(top_5_bosses) : Chance(top_5_bosses[i]) > 0

(* C4: when articles were processed and no record with a positive chance    *)
(* was kept, the scrape returns no error message and the notification is    *)
(* not a "Bot Error" text.                                                  *)
Claim_C4 ==
    (/\ pc = "exited"
     /\ Fetched
     /\ response.articles # <<>>
     /\ failure # "exception"
     /\ \A i \in 1..Len(encountered) : Chance(encountered[i]) <= 0) =>
        /\ error = NoneT
        /\ webhook.content = NoneT

(* C6: the length of the top list is min(5, number of qualifying records),  *)
(* a qualifying record having a non-empty name and a chance > 0.            *)
Claim_C6 ==
    (pc = "embed") =>
        Len(top_5_bosses) =
            Min(TopN, Len(SelectSeq(encountered, Qualifying)))

(* C7: an element without a name, without a chance, or with an empty name   *)
(* is skipped: no record of the top list has an empty name.                 *)
Claim_C7 ==
    \A i \in 1..Len(top_5_bosses) : top_5_bosses[i][1] # <<>>

=============================================================================
